---- MODULE Spec2Model ----
(***************************************************************************)
(* Model of add_x86_64_support.py: the seven per-file patch functions, the  *)
(* genrule pass with its block duplicator, backup_file and main.            *)
(*                                                                          *)
(* Text is a sequence of tokens.  A token stands for a fixed piece of text  *)
(* (one whitespace character, one keyword, one literal fragment); the       *)
(* literals the script searches for are token sequences, chosen so that an  *)
(* occurrence of a literal in the text is an occurrence of its token        *)
(* sequence.  A file content is one token sequence, with "\n" tokens        *)
(* between its lines, exactly as str.split('\n') and '\n'.join see it.      *)
(***************************************************************************)
EXTENDS Integers, Sequences, FiniteSets, TLC

(***************************************************************************)
(* Bounds of the model.                                                     *)
(***************************************************************************)
\* longest genrule file, in lines, that the duplicator is run on in SpecDup
MaxLines == 4
\* number of invocations of the script in one behaviour
MaxRuns == 2
\* last value of the wall clock, in seconds (datetime.now() at backup time)
MaxTime == 1

(***************************************************************************)
(* Python string operations on token sequences.                             *)
(***************************************************************************)
NL == "\n"
\* the whitespace str.strip() removes inside a line
Blank == {" ", "\t"}
\* the whitespace \s matches
ReSpace == Blank \cup {NL}

\* s[i:] (1-based i)
From(s, i) == SubSeq(s, i, Len(s))

\* s.startswith(p)
StartsWith(s, p) == Len(p) <= Len(s) /\ SubSeq(s, 1, Len(p)) = p

\* the positions where needle occurs in s
Occurrences(s, needle) ==
    {i \in 1..(Len(s) - Len(needle) + 1) : SubSeq(s, i, i + Len(needle) - 1) = needle}

\* needle in s
Contains(s, needle) == Occurrences(s, needle) # {}

\* the least element of a non-empty set of integers
Least(S) == CHOOSE i \in S : \A j \in S : i <= j

\* s.replace(old, new): every non-overlapping occurrence, left to right
RECURSIVE Replace(_, _, _)
Replace(s, old, new) ==
    IF old = <<>> \/ ~Contains(s, old) THEN s
    ELSE LET i == Least(Occurrences(s, old))
         IN  SubSeq(s, 1, i - 1) \o new \o Replace(From(s, i + Len(old)), old, new)

\* s.split('\n'): always at least one line, the last one possibly empty
RECURSIVE Split(_)
Split(s) ==
    IF \A i \in 1..Len(s) : s[i] # NL THEN <<s>>
    ELSE LET k == CHOOSE i \in 1..Len(s) : s[i] = NL /\ \A j \in 1..(i - 1) : s[j] # NL
         IN  <<SubSeq(s, 1, k - 1)>> \o Split(From(s, k + 1))

\* '\n'.join(lines)
RECURSIVE Join(_)
Join(lines) ==
    IF lines = <<>> THEN <<>>
    ELSE IF Len(lines) = 1 THEN lines[1]
    ELSE lines[1] \o <<NL>> \o Join(Tail(lines))

\* line.lstrip()
RECURSIVE LStrip(_)
LStrip(line) ==
    IF line # <<>> /\ line[1] \in Blank THEN LStrip(Tail(line)) ELSE line

\* line.rstrip()
RECURSIVE RStrip(_)
RStrip(line) ==
    IF line # <<>> /\ line[Len(line)] \in Blank
    THEN RStrip(SubSeq(line, 1, Len(line) - 1)) ELSE line

\* line.strip()
Strip(line) == RStrip(LStrip(line))

(***************************************************************************)
(* The block duplicator of patch_genrule_build_files.                       *)
(***************************************************************************)
\* 'elif [ "$(TARGET_CPU)" == "ios_sim_arm64" ]; then'
MarkerLiteral ==
    <<"elif", " ", "[ \"$(TARGET_CPU)\" == \"", "ios_", "sim_", "arm64", "\" ]; then">>

\* 'elif [ "$(TARGET_CPU)" == "ios_x86_64" ]; then'
NewMarkerLiteral ==
    <<"elif", " ", "[ \"$(TARGET_CPU)\" == \"", "ios_", "x86_64", "\" ]; then">>

\* 'ios_x86_64', the literal of the genrule pass's "already patched" check
GenrulePatchedLiteral == <<"ios_", "x86_64">>

\* the end-of-block test without its else case
IsTerminatorWithoutElse(line) ==
    LET t == Strip(line)
    IN  StartsWith(t, <<"elif", " ">>) \/ t = <<"fi">>

\* the end-of-block test of the inner loop
IsTerminator(line) ==
    LET t == Strip(line)
    IN  \/ StartsWith(t, <<"elif", " ">>)
        \/ StartsWith(t, <<"else">>)
        \/ t = <<"fi">>

\* line[:len(line) - len(line.lstrip())]
LeadingBlank(line) == SubSeq(line, 1, Len(line) - Len(LStrip(line)))

\* the index at which the inner loop stops: the first terminator after the
\* marker line at i, or one past the last line
RECURSIVE BlockEnd(_, _)
BlockEnd(lines, j) ==
    IF j > Len(lines) \/ IsTerminator(lines[j]) THEN j ELSE BlockEnd(lines, j + 1)

\* indent after the inner loop has run over block_lines, starting from ind
RECURSIVE BlockIndent(_, _)
BlockIndent(block_lines, ind) ==
    IF block_lines = <<>> THEN ind
    ELSE BlockIndent(Tail(block_lines),
                     IF ind = <<>> /\ Strip(block_lines[1]) # <<>>
                     THEN LeadingBlank(block_lines[1]) ELSE ind)

\* one body line rewritten by the arm64 rule alone
ModifiedLineArm64Only(bl) == Replace(bl, <<"arm64">>, <<"x86_64">>)

\* one body line of the x86_64 block
ModifiedLine(bl) ==
    Replace(Replace(bl, <<"aarch64">>, <<"x86_64">>), <<"arm64">>, <<"x86_64">>)

\* x86_block: the new marker line, then the rewritten body
X86Block(block_lines) ==
    <<BlockIndent(block_lines, <<>>) \o NewMarkerLiteral>>
        \o [k \in 1..Len(block_lines) |-> ModifiedLine(block_lines[k])]

\* the outer while loop, from index i with new_lines built so far
RECURSIVE ScanLines(_, _, _)
ScanLines(lines, i, new_lines) ==
    IF i > Len(lines) THEN new_lines
    ELSE IF Contains(lines[i], MarkerLiteral)
    THEN LET e == BlockEnd(lines, i + 1)
             block_lines == SubSeq(lines, i + 1, e - 1)
         IN  ScanLines(lines, e,
                       Append(new_lines, lines[i]) \o block_lines \o X86Block(block_lines))
    ELSE ScanLines(lines, i + 1, Append(new_lines, lines[i]))

\* modified: whether the transform of one genrule file's content changed it
GenruleModified(content) == Contains(content, MarkerLiteral)

\* the content the genrule pass writes back for a file it has read
GenrulePatched(content) ==
    IF Contains(content, MarkerLiteral)
    THEN Join(ScanLines(Split(content), 1, <<>>))
    ELSE content

(***************************************************************************)
(* re.sub as the per-file patches use it.  A pattern is a sequence of       *)
(* items: a literal token, or a greedy star over a set of tokens.  Every    *)
(* pattern of the script is two groups, (group 1)(group 2), and every       *)
(* replacement is \1, inserted text, \2.                                    *)
(***************************************************************************)
Lit(tok) == [star |-> FALSE, tok |-> tok, except |-> {}]
\* \s*
SpaceStar == [star |-> TRUE, tok |-> "\\s", except |-> {}]
\* [^c]*
NotStar(c) == [star |-> TRUE, tok |-> "^", except |-> {c}]
Lits(toks) == [k \in 1..Len(toks) |-> Lit(toks[k])]

\* whether token t is in the class of star item it
InClass(it, t) == IF it.tok = "\\s" THEN t \in ReSpace ELSE t \notin it.except

\* the number of tokens from position i on that are in the class of it
Run(s, i, it) ==
    LET stop == {j \in i..Len(s) : ~InClass(it, s[j])}
    IN  IF stop = {} THEN Len(s) + 1 - i ELSE Least(stop) - i

NoMatch == <<-1>>
Failed(r) == r # <<>> /\ r[1] = -1

\* Backtracking match of items k.. of pat at position i of s: the positions
\* after each of these items, or NoMatch.  A star takes the longest run that
\* lets the rest of the pattern match.
RECURSIVE MatchFrom(_, _, _, _)
MatchFrom(s, i, pat, k) ==
    IF k > Len(pat) THEN <<>>
    ELSE IF ~pat[k].star
    THEN IF i <= Len(s) /\ s[i] = pat[k].tok
         THEN LET r == MatchFrom(s, i + 1, pat, k + 1)
              IN  IF Failed(r) THEN NoMatch ELSE <<i + 1>> \o r
         ELSE NoMatch
    ELSE LET ok == {n \in 0..Run(s, i, pat[k]) : ~Failed(MatchFrom(s, i + n, pat, k + 1))}
         IN  IF ok = {} THEN NoMatch
             ELSE LET n == CHOOSE m \in ok : \A o \in ok : o <= m
                  IN  <<i + n>> \o MatchFrom(s, i + n, pat, k + 1)

\* re.sub(pat, r'\1' + ins + r'\2', s) from position i on; g1 is the number
\* of items of group 1
RECURSIVE ReSubFrom(_, _, _, _, _)
ReSubFrom(s, i, pat, g1, ins) ==
    LET starts == {j \in i..Len(s) : ~Failed(MatchFrom(s, j, pat, 1))}
    IN  IF starts = {} THEN From(s, i)
        ELSE LET j == Least(starts)
                 r == MatchFrom(s, j, pat, 1)
             IN  SubSeq(s, i, r[g1] - 1) \o ins \o SubSeq(s, r[g1], r[Len(pat)] - 1)
                     \o ReSubFrom(s, r[Len(pat)], pat, g1, ins)

ReSub(s, pat, g1, ins) == ReSubFrom(s, 1, pat, g1, ins)

(***************************************************************************)
(* The texts of the seven per-file patches.                                 *)
(***************************************************************************)
\* 'ios_sim_x86_64', the "already patched" literal of patches 1 to 6
SimX86Literal == <<"ios_", "sim_", "x86_64">>
\* 'debug_sim_x86_64', the "already patched" literal of patch_make_py
DebugSimX86Literal == <<"debug_", "sim_", "x86_64">>

Indent4 == <<" ", " ", " ", " ">>
\* '"//build-system:ios_sim_arm64":'
KeySimArm64 == <<"\"//build-system:", "ios_", "sim_", "arm64", "\":">>
\* '"//build-system:ios_sim_x86_64":'
KeySimX86 == <<"\"//build-system:", "ios_", "sim_", "x86_64", "\":">>
\* '"//build-system:ios_x86_64":'
KeyX86 == <<"\"//build-system:", "ios_", "x86_64", "\":">>
\* '"//conditions:default":'
KeyDefault == <<"\"//conditions:default\":">>

\* the three lines a select() gets, each mapped to value, with the newlines
\* of the replacement template around them
NewBranches(value) ==
    <<NL>> \o Indent4 \o KeySimX86 \o <<" ">> \o value \o <<",", NL>>
           \o Indent4 \o KeyX86 \o <<" ">> \o value \o <<",", NL>>
           \o Indent4 \o KeyDefault \o <<" ">> \o value \o <<",", NL>>

\* (\s*\}\))
CloseGroup == <<SpaceStar>> \o Lits(<<"}", ")">>)

\* new_config_settings with the ios_sim_x86_64 rule left out
new_config_settings_without_sim ==
    <<NL, "config_setting(name = \"ios_sim_arm64\", values = {\"cpu\": \"ios_sim_arm64\"})",
      NL, NL, "config_setting(name = \"ios_x86_64\", values = {\"cpu\": \"ios_x86_64\"})",
      NL, NL, "exports_files([\"GenerateStrings/GenerateStrings.py\"])", NL>>

\* new_config_settings: the whole new content of build-system/BUILD
new_config_settings ==
    <<NL, "config_setting(name = \"ios_sim_arm64\", values = {\"cpu\": \"ios_sim_arm64\"})",
      NL, NL, "config_setting(name = \"">> \o SimX86Literal
        \o <<"\", values = {\"cpu\": \"ios_x86_64\"})",
      NL, NL, "config_setting(name = \"ios_x86_64\", values = {\"cpu\": \"ios_x86_64\"})",
      NL, NL, "exports_files([\"GenerateStrings/GenerateStrings.py\"])", NL>>

BuildSystemPatched(content) == new_config_settings

\* old_arch_specific_sources and new_arch_specific_sources
SourcesSelect ==
    <<"arch_specific_sources = select({", NL,
      "    \"@build_bazel_rules_apple//apple:ios_arm64\": common_arm_specific_sources + arm64_specific_sources,", NL>>
        \o Indent4 \o KeySimArm64
        \o <<" ", "common_arm_specific_sources + arm64_specific_sources,", NL>>
old_arch_specific_sources == SourcesSelect \o <<"}", ")">>
new_arch_specific_sources ==
    <<"# x86_64 uses generic C implementations instead of NEON", NL,
      "x86_64_specific_sources = [...]", NL, NL>>
        \o SourcesSelect
        \o Indent4 \o KeySimX86 \o <<" ", "x86_64_specific_sources,", NL>>
        \o Indent4 \o KeyX86 \o <<" ", "x86_64_specific_sources,", NL>>
        \o Indent4 \o KeyDefault \o <<" ", "x86_64_specific_sources,", NL>>
        \o <<"}", ")">>

\* old_arch_specific_cflags and new_arch_specific_cflags
CflagsSelect ==
    <<"arch_specific_cflags", " ", "=", " ", "select({", NL,
      "    \"@build_bazel_rules_apple//apple:ios_arm64\": common_flags + arm64_specific_flags,", NL>>
        \o Indent4 \o KeySimArm64
        \o <<" ", "common_flags", " ", "+", " ", "arm64_specific_flags", ",", NL>>
old_arch_specific_cflags == CflagsSelect \o <<"}", ")">>
new_arch_specific_cflags ==
    <<"x86_64_specific_flags = [...]", NL, NL>>
        \o CflagsSelect
        \o Indent4 \o KeySimX86 \o <<" ", "common_flags + x86_64_specific_flags,", NL>>
        \o Indent4 \o KeyX86 \o <<" ", "common_flags + x86_64_specific_flags,", NL>>
        \o Indent4 \o KeyDefault \o <<" ", "common_flags + x86_64_specific_flags,", NL>>
        \o <<"}", ")">>

WebrtcPatched(content) ==
    Replace(Replace(content, old_arch_specific_sources, new_arch_specific_sources),
            old_arch_specific_cflags, new_arch_specific_cflags)

\* group 1 of the libsrtp pattern:
\* "//build-system:ios_sim_arm64":\s*common_flags\s*\+\s*arm64_specific_flags,
SimArm64Cflags ==
    Lits(KeySimArm64) \o <<SpaceStar>> \o Lits(<<"common_flags">>) \o <<SpaceStar>>
        \o Lits(<<"+">>) \o <<SpaceStar>> \o Lits(<<"arm64_specific_flags", ",">>)

\* group 1 of the libyuv pattern:
\* arch_specific_cflags\s*=\s*select\(\{[^}]*"//build-system:ios_sim_arm64": ...
LibyuvGroup1 ==
    Lits(<<"arch_specific_cflags">>) \o <<SpaceStar>> \o Lits(<<"=">>) \o <<SpaceStar>>
        \o Lits(<<"select({">>) \o <<NotStar("}")>> \o SimArm64Cflags

LibyuvPatched(content) ==
    ReSub(content, LibyuvGroup1 \o CloseGroup, Len(LibyuvGroup1),
          NewBranches(<<"common_flags">>))

LibsrtpPatched(content) ==
    ReSub(content, SimArm64Cflags \o CloseGroup, Len(SimArm64Cflags),
          NewBranches(<<"common_flags">>))

\* "//build-system:ios_sim_arm64":\s*<name>,
SimArm64Name(name) == Lits(KeySimArm64) \o <<SpaceStar>> \o Lits(<<name, ",">>)

OpenH264Sub(content, name) ==
    ReSub(content, SimArm64Name(name) \o CloseGroup, Len(SimArm64Name(name)),
          NewBranches(<<"[]">>))

OpenH264Patched(content) ==
    OpenH264Sub(OpenH264Sub(OpenH264Sub(content, "arm64_specific_sources"),
                            "arm64_specific_copts"),
                "arm64_specific_textual_hdrs")

\* "//build-system:ios_sim_arm64":\s*\[[^\]]*\],
SimArm64List ==
    Lits(KeySimArm64) \o <<SpaceStar>> \o Lits(<<"[">>) \o <<NotStar("]")>>
        \o Lits(<<"]", ",">>)

Crc32cPatched(content) ==
    ReSub(content, SimArm64List \o CloseGroup, Len(SimArm64List), NewBranches(<<"[]">>))

\* old_release_arm64 and new_configurations
ReleaseArm64Case ==
    <<"        elif configuration == 'release_arm64': self.configuration_args = [...] + self.common_release_args", NL>>
UnknownConfiguration ==
    <<"        else: raise Exception('Unknown configuration {}'.format(configuration))">>
old_release_arm64 == ReleaseArm64Case \o UnknownConfiguration
new_configurations ==
    ReleaseArm64Case
        \o <<"        elif configuration == '">> \o DebugSimX86Literal
        \o <<"': self.configuration_args = [...] + self.common_debug_args", NL,
             "        elif configuration == 'release_", "sim_", "x86_64",
             "': self.configuration_args = [...] + self.common_release_args", NL>>
        \o UnknownConfiguration

\* old_choices and new_choices
ChoicesHead ==
    <<"        choices=[", NL, "            'debug_arm64',", NL,
      "            'debug_sim_arm64',", NL, "            'release_sim_arm64',", NL,
      "            'release_arm64',", NL>>
ChoicesTail ==
    <<"        ],", NL, "        required=True,", NL, "        help='Build configuration'">>
old_choices == ChoicesHead \o ChoicesTail
new_choices ==
    ChoicesHead
        \o <<"            '">> \o DebugSimX86Literal \o <<"',", NL,
             "            'release_", "sim_", "x86_64", "',", NL>>
        \o ChoicesTail

MakePyPatched(content) ==
    Replace(Replace(content, old_release_arm64, new_configurations),
            old_choices, new_choices)

(***************************************************************************)
(* The files.                                                               *)
(***************************************************************************)
\* the seven files main patches, in the order of its calls
PatchFiles ==
    <<"build-system/BUILD", "third-party/webrtc/BUILD", "third-party/libyuv/BUILD",
      "third-party/openh264/BUILD", "third-party/webrtc/libsrtp/BUILD",
      "third-party/webrtc/crc32c/BUILD", "build-system/Make/Make.py">>

genrule_files ==
    <<"submodules/ffmpeg/BUILD", "third-party/opus/BUILD", "third-party/libjxl/BUILD",
      "third-party/webp/BUILD", "third-party/td/BUILD", "third-party/libvpx/BUILD",
      "third-party/dav1d/BUILD", "third-party/mozjpeg/BUILD">>

Range(f) == {f[k] : k \in DOMAIN f}
Targets == Range(PatchFiles) \cup Range(genrule_files)

\* a path of the file system: absent, or present with a content
Missing == [exists |-> FALSE, content |-> <<>>]
File(c) == [exists |-> TRUE, content |-> c]

\* the literal whose presence makes step k (1..7) skip its file
PatchedLiteral(k) == IF k = 7 THEN DebugSimX86Literal ELSE SimX86Literal

\* the content step k (1..7) writes for a file whose content it has read
Patched(k, content) ==
    CASE k = 1 -> BuildSystemPatched(content)
      [] k = 2 -> WebrtcPatched(content)
      [] k = 3 -> LibyuvPatched(content)
      [] k = 4 -> OpenH264Patched(content)
      [] k = 5 -> LibsrtpPatched(content)
      [] k = 6 -> Crc32cPatched(content)
      [] k = 7 -> MakePyPatched(content)

(***************************************************************************)
(* Initial file trees: an upstream tree in which every file holds the text  *)
(* its patch looks for, a bare tree that holds only build-system/BUILD, and *)
(* any tree that differs from one of the two in one file.                   *)
(***************************************************************************)
\* K: V, followed by the closing of the select on the next line
Branch(value) == Indent4 \o KeySimArm64 \o <<" ">> \o value \o <<",", NL, "}", ")">>

\* the scenario text: the ios_sim_arm64 cflags branch and the closing line
CflagsScenario ==
    KeySimArm64 \o <<" ", "common_flags", " ", "+", " ", "arm64_specific_flags", ",",
                     NL, "}", ")">>

IndentedMarker == <<" ">> \o MarkerLiteral
\* a line holding the marker literal with text before and after it
CommentedMarker == <<"#", " ">> \o MarkerLiteral \o <<" ", "#">>
BodyLine == <<" ", " ", "a: ", "arm64", "_flag">>
Aarch64Line == <<"\t", "--cpu=", "aarch64", " ", "--target=", "arm64">>
\* 'a: arm64_flag', a body line without indentation
FlagLine == <<"a: ", "arm64", "_flag">>
FiLine == <<" ", "fi">>
ElseLine == <<"else">>
PatchedLine == <<" ">> \o NewMarkerLiteral

Upstream(p) ==
    CASE p = PatchFiles[1] ->
           <<"config_setting(name = \"ios_sim_arm64\", values = {\"cpu\": \"ios_sim_arm64\"})", NL>>
      [] p = PatchFiles[2] ->
           old_arch_specific_sources \o <<NL, NL>> \o old_arch_specific_cflags \o <<NL>>
      [] p = PatchFiles[3] ->
           <<"arch_specific_cflags", " ", "=", " ", "select({", NL>>
               \o Branch(<<"common_flags", " ", "+", " ", "arm64_specific_flags">>) \o <<NL>>
      [] p = PatchFiles[4] ->
           <<"srcs = select({", NL>> \o Branch(<<"arm64_specific_sources">>)
               \o <<NL, "copts = select({", NL>> \o Branch(<<"arm64_specific_copts">>)
               \o <<NL, "hdrs = select({", NL>> \o Branch(<<"arm64_specific_textual_hdrs">>)
      [] p = PatchFiles[5] ->
           <<"copts = select({", NL>>
               \o Branch(<<"common_flags", " ", "+", " ", "arm64_specific_flags">>) \o <<NL>>
      [] p = PatchFiles[6] ->
           <<"copts = select({", NL>> \o Branch(<<"[", "\"-DHAVE_ARM64_CRC32C=0\"", "]">>)
      [] p = PatchFiles[7] ->
           old_release_arm64 \o <<NL>> \o old_choices \o <<NL>>
      [] OTHER ->
           Join(<<IndentedMarker, BodyLine, FiLine, <<>> >>)

\* the contents one file may hold instead
Variants(p) ==
    CASE p = PatchFiles[1] -> {Missing, File(<<"# ">> \o SimX86Literal),
            File(<<"config_setting(name = \"ios_arm64\", values = {\"cpu\": \"ios_arm64\"})", NL>>)}
      [] p = PatchFiles[2] ->
           {Missing, File(<<"# ">> \o SimX86Literal), File(<<"# webrtc", NL>>),
            File(old_arch_specific_cflags)}
      [] p = PatchFiles[3] ->
           {Missing, File(<<"# ">> \o SimX86Literal), File(CflagsScenario)}
      [] p = PatchFiles[4] ->
           {Missing, File(<<"# ">> \o SimX86Literal),
            File(Branch(<<"arm64_specific_copts">>))}
      [] p = PatchFiles[5] ->
           {Missing, File(<<"# ">> \o SimX86Literal), File(CflagsScenario)}
      [] p = PatchFiles[6] ->
           {Missing, File(<<"# ">> \o SimX86Literal), File(Branch(<<"[", "]">>) \o Branch(<<"[", "]">>))}
      [] p = PatchFiles[7] ->
           {Missing, File(<<"# ">> \o DebugSimX86Literal), File(old_choices)}
      [] OTHER ->
           {Missing, File(PatchedLine), File(<<"# no TARGET_CPU", NL>>),
            File(Join(<<IndentedMarker, BodyLine>>)),
            File(Join(<<IndentedMarker, Aarch64Line, CommentedMarker, ElseLine,
                        IndentedMarker, FiLine>>))}

UpstreamTree == [p \in Targets |-> File(Upstream(p))]
BareTree == [p \in Targets |-> IF p = PatchFiles[1] THEN File(Upstream(p)) ELSE Missing]

InitialTrees ==
    {UpstreamTree, BareTree}
        \cup {[t[1] EXCEPT ![t[2]] = t[3]] : t \in
                {u \in {UpstreamTree, BareTree} \X Targets \X UNION {Variants(q) : q \in Targets} :
                    u[3] \in Variants(u[2])}}

(***************************************************************************)
(* The state.                                                               *)
(***************************************************************************)
VARIABLES
    fs,              \* the target files: path -> Missing or File(content)
    bk,              \* the backup files: path -> timestamp -> Missing or File(content)
    now,             \* the wall clock, in seconds
    run,             \* the number of invocations of the script so far
    pc,              \* where the running invocation is
    step,            \* which per-file step (1..7) or genrule file (1..8) is being handled
    dry_run,         \* args.dry_run
    skip_genrules,   \* args.skip_genrules
    success,         \* main's success flag
    content,         \* the content read by the patch function in progress
    patched_count,   \* patch_genrule_build_files' patched_count
    results,         \* the values the per-file patch functions have returned, in order
    genrule_result,  \* <<b>> once patch_genrule_build_files has returned b
    exit_code,       \* the exit code of the invocation, -1 while there is none
    pre,             \* the file tree when the running invocation started
    pre_bk,          \* the backup files when the running invocation started
    tree0,           \* the file tree before the first invocation
    io,              \* the paths the running invocation has read, backed up, written
    skipped,         \* the paths the running invocation reported "Already patched"
    history          \* one record per finished invocation

vars ==
    <<fs, bk, now, run, pc, step, dry_run, skip_genrules, success, content,
      patched_count, results, genrule_result, exit_code, pre, pre_bk, tree0, io,
      skipped, history>>

Times == 0..MaxTime

NoIo == [read |-> {}, backed |-> {}, written |-> {}]

Init ==
    /\ fs \in InitialTrees
    /\ bk = [p \in Targets |-> [t \in Times |-> Missing]]
    /\ now = 0
    /\ run = 0
    /\ pc = "idle"
    /\ step = 0
    /\ dry_run = FALSE
    /\ skip_genrules = FALSE
    /\ success = TRUE
    /\ content = <<>>
    /\ patched_count = 0
    /\ results = <<>>
    /\ genrule_result = <<>>
    /\ exit_code = -1
    /\ pre = fs
    /\ pre_bk = bk
    /\ tree0 = fs
    /\ io = NoIo
    /\ skipped = {}
    /\ history = <<>>

\* what an invocation leaves behind when it ends with exit code code
Finished(code) ==
    [dry_run |-> dry_run, skip_genrules |-> skip_genrules, pre |-> pre, fs |-> fs,
     io |-> io, skipped |-> skipped, results |-> results, success |-> success,
     genrule_result |-> genrule_result, exit_code |-> code]

(***************************************************************************)
(* main.                                                                    *)
(***************************************************************************)
\* the script is started, with any flags
main_start ==
    /\ pc \in {"idle", "done", "exited"}
    /\ run < MaxRuns
    /\ run' = run + 1
    /\ dry_run' \in BOOLEAN
    /\ skip_genrules' \in BOOLEAN
    /\ pc' = "main"
    /\ step' = 0
    /\ success' = TRUE
    /\ content' = <<>>
    /\ patched_count' = 0
    /\ results' = <<>>
    /\ genrule_result' = <<>>
    /\ exit_code' = -1
    /\ pre' = fs
    /\ pre_bk' = bk
    /\ io' = NoIo
    /\ skipped' = {}
    /\ UNCHANGED <<fs, bk, now, tree0, history>>

\* the directory check made on another of the files
WrongDirectoryByMakePy == ~fs["build-system/Make/Make.py"].exists

\* not os.path.exists('build-system/BUILD')
WrongDirectory == ~fs["build-system/BUILD"].exists

\* if not os.path.exists('build-system/BUILD'): sys.exit(1)
main_check_directory ==
    /\ pc = "main"
    /\ IF WrongDirectory
       THEN /\ pc' = "exited"
            /\ exit_code' = 1
            /\ history' = Append(history, Finished(1))
            /\ UNCHANGED step
       ELSE /\ pc' = "check"
            /\ step' = 1
            /\ UNCHANGED <<exit_code, history>>
    /\ UNCHANGED <<fs, bk, now, run, dry_run, skip_genrules, success, content,
                   patched_count, results, genrule_result, pre, pre_bk, tree0, io, skipped>>

\* main giving up at the first step that fails
ReturnedStoppingAtFailure(k, r) ==
    /\ results' = Append(results, r)
    /\ success' = (success /\ r)
    /\ IF k < Len(PatchFiles) /\ r
       THEN pc' = "check" /\ step' = k + 1
       ELSE IF skip_genrules \/ ~r
       THEN pc' = "finish" /\ step' = 0
       ELSE pc' = "g_check" /\ step' = 1

\* success &= patch_...(...): the k-th call has returned r; main goes on to
\* the next call, to the genrule pass, or to its closing messages
Returned(k, r) ==
    /\ results' = Append(results, r)
    /\ success' = (success /\ r)
    /\ IF k < Len(PatchFiles)
       THEN pc' = "check" /\ step' = k + 1
       ELSE IF skip_genrules
       THEN pc' = "finish" /\ step' = 0
       ELSE pc' = "g_check" /\ step' = 1

\* the closing messages; the script ends normally
main_finish ==
    /\ pc = "finish"
    /\ pc' = "done"
    /\ exit_code' = 0
    /\ history' = Append(history, Finished(0))
    /\ UNCHANGED <<fs, bk, now, run, step, dry_run, skip_genrules, success, content,
                   patched_count, results, genrule_result, pre, pre_bk, tree0, io, skipped>>

(***************************************************************************)
(* backup_file, and the steps every patch function is made of.              *)
(***************************************************************************)
\* what shutil.copy2 stores at the backup path
BackupCopy(filepath) == fs[filepath]

\* backup_file(filepath): the copy is named after the path and the second
backup_file(filepath) ==
    /\ bk' = [bk EXCEPT ![filepath][now] = BackupCopy(filepath)]
    /\ io' = [io EXCEPT !.backed = @ \cup {filepath}]

\* a patch function that opens its file for writing without a backup
AfterChecksWithoutBackup == "open"

\* where a per-file patch function goes once its file exists, is not yet
\* patched and the run is no dry run: to its call of backup_file
AfterChecks == "backup"

\* the same for a file of the genrule pass
AfterGenruleChecks == "g_backup"

\* a patch function that ignores the dry-run flag
WillModifyAlways(dry) == TRUE

\* if dry_run: ... return / continue.  Whether a patch function that has
\* found its file unpatched goes on to change it
WillModify(dry) == ~dry

\* the path the patch function in progress is working on
CurrentFile ==
    IF pc \in {"g_check", "g_backup", "g_open", "g_write"}
    THEN genrule_files[step] ELSE PatchFiles[step]

\* A second passes.  The script reads the clock only in backup_file, and the
\* second it reads there shows only in whether the backup path exists
\* already: the seconds that matter are the ones that pass right before a
\* call of backup_file whose backup path is taken.
Tick ==
    /\ pc \in {"backup", "g_backup"}
    /\ bk[CurrentFile][now].exists
    /\ now < MaxTime
    /\ now' = now + 1
    /\ UNCHANGED <<fs, bk, run, pc, step, dry_run, skip_genrules, success, content,
                   patched_count, results, genrule_result, exit_code, pre, pre_bk, tree0, io,
                   skipped, history>>

\* Step k of main, up to the dry-run check: the file is missing (False), or
\* it is read and found patched (True), or the run is a dry run (True), or
\* the function goes on to back the file up
PatchCheck(k) ==
    LET filepath == PatchFiles[k] IN
    /\ pc = "check"
    /\ step = k
    /\ IF ~fs[filepath].exists
       THEN /\ Returned(k, FALSE)
            /\ UNCHANGED <<content, io, skipped>>
       ELSE /\ content' = fs[filepath].content
            /\ io' = [io EXCEPT !.read = @ \cup {filepath}]
            /\ IF Contains(fs[filepath].content, PatchedLiteral(k))
               THEN /\ skipped' = skipped \cup {filepath}
                    /\ Returned(k, TRUE)
               ELSE /\ UNCHANGED skipped
                    /\ IF ~WillModify(dry_run)
                       THEN Returned(k, TRUE)
                       ELSE /\ pc' = AfterChecks
                            /\ UNCHANGED <<step, results, success>>
    /\ UNCHANGED <<fs, bk, now, run, dry_run, skip_genrules, patched_count,
                   genrule_result, exit_code, pre, pre_bk, tree0, history>>

\* backup_file(filepath)
PatchBackup(k) ==
    /\ pc = "backup"
    /\ step = k
    /\ backup_file(PatchFiles[k])
    /\ pc' = "open"
    /\ UNCHANGED <<fs, now, run, step, dry_run, skip_genrules, success, content,
                   patched_count, results, genrule_result, exit_code, pre, pre_bk, tree0,
                   skipped, history>>

\* open(filepath, 'w'): the file is truncated
PatchOpen(k) ==
    /\ pc = "open"
    /\ step = k
    /\ fs' = [fs EXCEPT ![PatchFiles[k]] = File(<<>>)]
    /\ io' = [io EXCEPT !.written = @ \cup {PatchFiles[k]}]
    /\ pc' = "write"
    /\ UNCHANGED <<bk, now, run, step, dry_run, skip_genrules, success, content,
                   patched_count, results, genrule_result, exit_code, pre, pre_bk, tree0,
                   skipped, history>>

\* f.write(...), the file is closed, return True
PatchWrite(k) ==
    /\ pc = "write"
    /\ step = k
    /\ fs' = [fs EXCEPT ![PatchFiles[k]] = File(Patched(k, content))]
    /\ Returned(k, TRUE)
    /\ UNCHANGED <<bk, now, run, dry_run, skip_genrules, content, patched_count,
                   genrule_result, exit_code, pre, pre_bk, tree0, io, skipped, history>>

PatchFunction(k) == PatchCheck(k) \/ PatchBackup(k) \/ PatchOpen(k) \/ PatchWrite(k)

patch_build_system_build == PatchFunction(1)
patch_webrtc_build == PatchFunction(2)
patch_libyuv_build == PatchFunction(3)
patch_openh264_build == PatchFunction(4)
patch_libsrtp_build == PatchFunction(5)
patch_crc32c_build == PatchFunction(6)
patch_make_py == PatchFunction(7)

(***************************************************************************)
(* patch_genrule_build_files.                                               *)
(***************************************************************************)
\* what the pass returns
GenruleReturn(count) == count > 0

\* the for loop goes on to the next file, or the function returns
NextGenruleFile(j, count) ==
    /\ patched_count' = count
    /\ IF j < Len(genrule_files)
       THEN /\ pc' = "g_check"
            /\ step' = j + 1
            /\ UNCHANGED genrule_result
       ELSE /\ pc' = "finish"
            /\ step' = 0
            /\ genrule_result' = <<GenruleReturn(count)>>

\* one iteration, up to the dry-run check
GenruleCheck(j) ==
    LET filepath == genrule_files[j] IN
    /\ pc = "g_check"
    /\ step = j
    /\ IF ~fs[filepath].exists
       THEN /\ NextGenruleFile(j, patched_count)
            /\ UNCHANGED <<content, io, skipped>>
       ELSE /\ content' = fs[filepath].content
            /\ io' = [io EXCEPT !.read = @ \cup {filepath}]
            /\ IF Contains(fs[filepath].content, GenrulePatchedLiteral)
               THEN /\ skipped' = skipped \cup {filepath}
                    /\ NextGenruleFile(j, patched_count)
               ELSE /\ UNCHANGED skipped
                    /\ IF ~WillModify(dry_run)
                       THEN NextGenruleFile(j, patched_count + 1)
                       ELSE /\ pc' = AfterGenruleChecks
                            /\ UNCHANGED <<step, patched_count, genrule_result>>
    /\ UNCHANGED <<fs, bk, now, run, dry_run, skip_genrules, success, results,
                   exit_code, pre, pre_bk, tree0, history>>

GenruleBackup(j) ==
    /\ pc = "g_backup"
    /\ step = j
    /\ backup_file(genrule_files[j])
    /\ pc' = "g_open"
    /\ UNCHANGED <<fs, now, run, step, dry_run, skip_genrules, success, content,
                   patched_count, results, genrule_result, exit_code, pre, pre_bk, tree0,
                   skipped, history>>

GenruleOpen(j) ==
    /\ pc = "g_open"
    /\ step = j
    /\ fs' = [fs EXCEPT ![genrule_files[j]] = File(<<>>)]
    /\ io' = [io EXCEPT !.written = @ \cup {genrule_files[j]}]
    /\ pc' = "g_write"
    /\ UNCHANGED <<bk, now, run, step, dry_run, skip_genrules, success, content,
                   patched_count, results, genrule_result, exit_code, pre, pre_bk, tree0,
                   skipped, history>>

GenruleWrite(j) ==
    /\ pc = "g_write"
    /\ step = j
    /\ fs' = [fs EXCEPT ![genrule_files[j]] = File(GenrulePatched(content))]
    /\ NextGenruleFile(j, IF GenruleModified(content)
                          THEN patched_count + 1 ELSE patched_count)
    /\ UNCHANGED <<bk, now, run, dry_run, skip_genrules, success, content, results,
                   exit_code, pre, pre_bk, tree0, io, skipped, history>>

patch_genrule_build_files ==
    \E j \in DOMAIN genrule_files :
        GenruleCheck(j) \/ GenruleBackup(j) \/ GenruleOpen(j) \/ GenruleWrite(j)

Next ==
    \/ main_start
    \/ main_check_directory
    \/ patch_build_system_build
    \/ patch_webrtc_build
    \/ patch_libyuv_build
    \/ patch_openh264_build
    \/ patch_libsrtp_build
    \/ patch_crc32c_build
    \/ patch_make_py
    \/ patch_genrule_build_files
    \/ main_finish
    \/ Tick

Spec == Init /\ [][Next]_vars

(***************************************************************************)
(* The block duplicator on every short file: an invocation that has reached *)
(* the last genrule file, in a tree that holds an already patched           *)
(* build-system/BUILD and that one file, with any content of up to MaxLines *)
(* lines.                                                                   *)
(***************************************************************************)
DupLines ==
    {IndentedMarker, CommentedMarker, BodyLine, FlagLine, Aarch64Line, FiLine, ElseLine,
     <<>>}

DupInputs == UNION {[1..n -> DupLines] : n \in 1..MaxLines}

DupFile == genrule_files[Len(genrule_files)]

DupTree(lines) ==
    [p \in Targets |->
        CASE p = PatchFiles[1] -> File(new_config_settings)
          [] p = DupFile -> File(Join(lines))
          [] OTHER -> Missing]

InitDup ==
    /\ fs \in {DupTree(lines) : lines \in DupInputs}
    /\ bk = [p \in Targets |-> [t \in Times |-> Missing]]
    /\ now = 0
    /\ run = 1
    /\ pc = "g_check"
    /\ step = Len(genrule_files)
    /\ dry_run = FALSE
    /\ skip_genrules = FALSE
    /\ success = FALSE
    /\ content = new_config_settings
    /\ patched_count = 0
    /\ results = [k \in 1..Len(PatchFiles) |-> k = 1]
    /\ genrule_result = <<>>
    /\ exit_code = -1
    /\ pre = fs
    /\ pre_bk = bk
    /\ tree0 = fs
    /\ io = [NoIo EXCEPT !.read = {PatchFiles[1]}]
    /\ skipped = {PatchFiles[1]}
    /\ history = <<>>

NextDup ==
    \/ patch_genrule_build_files
    \/ main_finish

SpecDup == InitDup /\ [][NextDup]_vars

(***************************************************************************)
(* The claims.                                                              *)
(***************************************************************************)
\* whether the file at path p of tree holds literal
Holds(tree, p, literal) == tree[p].exists /\ Contains(tree[p].content, literal)

\* C1 (as claimed): a patch function whose file already holds the literal it
\* checks leaves the file as it is, makes no backup of it and returns True;
\* this for each of the seven per-file functions and for the genrule pass.
C1_AlreadyPatchedNoOp ==
    /\ \A k \in 1..Len(results) :
           Holds(pre, PatchFiles[k], PatchedLiteral(k))
               => /\ results[k]
                  /\ fs[PatchFiles[k]] = pre[PatchFiles[k]]
                  /\ bk[PatchFiles[k]] = pre_bk[PatchFiles[k]]
    /\ genrule_result # <<>>
           => \A j \in DOMAIN genrule_files :
                  Holds(pre, genrule_files[j], GenrulePatchedLiteral)
                      => /\ genrule_result[1]
                         /\ fs[genrule_files[j]] = pre[genrule_files[j]]
                         /\ bk[genrule_files[j]] = pre_bk[genrule_files[j]]

\* no file of the tree holds the literal its patch function checks
Pristine(tree) ==
    /\ \A k \in DOMAIN PatchFiles : ~Holds(tree, PatchFiles[k], PatchedLiteral(k))
    /\ \A j \in DOMAIN genrule_files : ~Holds(tree, genrule_files[j], GenrulePatchedLiteral)

\* a finished invocation that ran all seven steps and the genrule pass for real
FullRun(h) == ~h.dry_run /\ ~h.skip_genrules /\ h.exit_code = 0

\* the first two invocations were full runs, the first one on a pristine tree
TwoFullRuns ==
    /\ Len(history) >= 2
    /\ FullRun(history[1])
    /\ FullRun(history[2])
    /\ Pristine(tree0)

\* C2 (as claimed): after two full runs on a pristine tree every file is as
\* the first run left it, and the second run found every existing target
\* file already patched.
C2_SecondRunSkipsEveryFile ==
    TwoFullRuns
        => /\ history[2].fs = history[1].fs
           /\ \A p \in Targets : history[2].pre[p].exists => p \in history[2].skipped

\* C2 (amended): after two full runs on a pristine tree every file is as the
\* first run left it, and the second run found already patched, and neither
\* backed up nor wrote, every file the first run had changed.
C2_Idempotent ==
    TwoFullRuns
        => /\ history[2].fs = history[1].fs
           /\ \A p \in Targets :
                  history[1].fs[p] # tree0[p]
                      => /\ p \in history[2].skipped
                         /\ p \notin history[2].io.backed \cup history[2].io.written

\* two full runs on the upstream tree, every file of which the first changed
C2_Witness ==
    /\ TwoFullRuns
    /\ tree0 = UpstreamTree
    /\ \A p \in Targets : history[1].fs[p] # tree0[p]

\* C3: in a dry run no target file and no backup file is created or changed,
\* at any point of the run.
C3_DryRunFrame == (run >= 1 /\ dry_run) => (fs = pre /\ bk = pre_bk)

\* a finished dry run on the unpatched upstream tree, which reported every
\* file as one it would patch
C3_Witness ==
    /\ pc = "done"
    /\ dry_run
    /\ pre = UpstreamTree
    /\ skipped = {}
    /\ \A k \in DOMAIN PatchFiles : results[k]
    /\ genrule_result = <<TRUE>>

\* C4: at every point of a run, a target file that has been opened for
\* writing or differs from its content at the start of the run has been
\* backed up in this run, and a backup file holds that content.
C4_BackupBeforeOverwrite ==
    \A p \in Targets :
        (fs[p] # pre[p] \/ p \in io.written)
            => /\ p \in io.backed
               /\ \E t \in Times : bk[p][t] = pre[p]

\* a run stopped between the truncation of a file and the write: the file is
\* empty and its backup holds what it held
C4_Witness ==
    /\ pc \in {"write", "g_write"}
    /\ fs[CurrentFile] = File(<<>>)
    /\ pre[CurrentFile].content # <<>>
    /\ bk[CurrentFile][now] = pre[CurrentFile]

\* C7: past the directory check main calls the seven patch functions in
\* order whatever they return; a step whose file is missing returns False
\* and leaves file and backups alone; success is the conjunction of the
\* results; and a file a step has patched stays patched for the rest of the
\* run, whatever the later steps return.
C7_FailurePropagation ==
    /\ pc \in {"check", "backup", "open", "write"} => Len(results) = step - 1
    /\ pc \in {"g_check", "g_backup", "g_open", "g_write", "finish", "done"}
           => Len(results) = Len(PatchFiles)
    /\ success = (\A k \in 1..Len(results) : results[k])
    /\ \A k \in 1..Len(results) :
           LET p == PatchFiles[k] IN
           /\ ~pre[p].exists
                  => ~results[k] /\ fs[p] = pre[p] /\ bk[p] = pre_bk[p]
           /\ (pre[p].exists /\ ~Holds(pre, p, PatchedLiteral(k)) /\ ~dry_run)
                  => fs[p] = File(Patched(k, pre[p].content))

\* a finished run in which a step failed between two steps that changed
\* their files
C7_Witness ==
    /\ pc = "done"
    /\ ~success
    /\ \E k \in 2..(Len(PatchFiles) - 1) :
           /\ ~results[k]
           /\ results[k - 1] /\ fs[PatchFiles[k - 1]] # pre[PatchFiles[k - 1]]
           /\ results[k + 1] /\ fs[PatchFiles[k + 1]] # pre[PatchFiles[k + 1]]

\* C8: an invocation ends with exit code 1 exactly when build-system/BUILD
\* did not exist when it started, and has then read, backed up and written
\* nothing; every other invocation that ends, ends with exit code 0.
C8_ExitCode ==
    /\ pc \in {"done", "exited"}
           => /\ exit_code \in {0, 1}
              /\ exit_code = 1 <=> ~pre["build-system/BUILD"].exists
    /\ pc \notin {"done", "exited"} => exit_code = -1
    /\ exit_code = 1 => (io = NoIo /\ fs = pre /\ bk = pre_bk)

\* an invocation that ended with exit code 1 in a tree that holds the other
\* target files
C8_Witness ==
    /\ pc = "exited"
    /\ exit_code = 1
    /\ \E k \in DOMAIN PatchFiles : pre[PatchFiles[k]].exists
    /\ \E j \in DOMAIN genrule_files : pre[genrule_files[j]].exists

\* the lines of the file the duplicator was run on, before and after
InLines == Split(pre[DupFile].content)
OutLines == Split(fs[DupFile].content)

\* the pass has read, transformed and written the file, and has returned
DupDone == pc \in {"finish", "done"} /\ DupFile \in io.written

\* a terminator line, as the claims describe it
ClaimTerminator(line) ==
    LET t == Strip(line)
    IN  t # <<>> /\ (t = <<"fi">> \/ t[1] = "else" \/ (Len(t) >= 2 /\ t[1] = "elif" /\ t[2] = " "))

\* the lines of L that hold the marker literal
MarkerAt(L) == {i \in 1..Len(L) : Contains(L[i], MarkerLiteral)}

\* the terminator lines after line i
TermAfter(L, i) == {j \in (i + 1)..Len(L) : ClaimTerminator(L[j])}

\* the line after the block of the marker line i: its terminator, or one
\* past the end of the file
EndOf(L, i) == IF TermAfter(L, i) = {} THEN Len(L) + 1 ELSE Least(TermAfter(L, i))

BodyLen(L, i) == EndOf(L, i) - i - 1

\* the number of lines of the duplicated blocks of the marker lines in H
RECURSIVE Added(_, _)
Added(L, H) ==
    IF H = {} THEN 0
    ELSE LET h == CHOOSE x \in H : TRUE
         IN  BodyLen(L, h) + 1 + Added(L, H \ {h})

\* The placement of the duplicated blocks of the marker lines H of L in O:
\* O has the lines of L plus one block per marker line; every line of L is
\* in O, moved down by the blocks inserted before it; the block of marker
\* line i starts, with a line holding the new marker literal, right after the
\* last line of the original block, and is followed by the terminator line,
\* or, if mustTerminate is FALSE, ends the file.
Placed(L, O, H, mustTerminate) ==
    /\ Len(O) = Len(L) + Added(L, H)
    /\ \A j \in 1..Len(L) :
           LET at == j + Added(L, {h \in H : EndOf(L, h) <= j})
           IN  at <= Len(O) /\ O[at] = L[j]
    /\ \A i \in H :
           LET e == EndOf(L, i)
               first == e + Added(L, {h \in H : h < i})
               last == first + BodyLen(L, i)
           IN  /\ last <= Len(O)
               /\ Contains(O[first], NewMarkerLiteral)
               /\ IF e <= Len(L)
                  THEN last + 1 <= Len(O) /\ O[last + 1] = L[e]
                  ELSE ~mustTerminate /\ last = Len(O)

\* C5 (as claimed): every line that holds the marker literal gets its
\* duplicated block right after the last line of its block and right before
\* the terminator line, the original lines are kept in order, and the file
\* grows by body length + 1 lines per such line.
C5_EveryMarkerLine ==
    DupDone => Placed(InLines, OutLines, MarkerAt(InLines), TRUE)

\* the marker lines the scan reaches as the head of a block: those that do
\* not lie in the body of an earlier marker line's block
Headers(L) ==
    {i \in MarkerAt(L) :
        ~\E k \in MarkerAt(L) : k < i /\ \A j \in (k + 1)..i : ~ClaimTerminator(L[j])}

\* C5 (amended): every marker line that does not lie in the body of an
\* earlier marker block gets its duplicated block right after the last line
\* of its block and right before the terminator line, or at the end of the
\* file when no terminator line follows; the original lines are kept in
\* order; the file grows by body length + 1 lines per such marker line.
C5_BlockPlacement ==
    DupDone => Placed(InLines, OutLines, Headers(InLines), FALSE)

\* a file with two marker blocks, the first with a body and a terminator
C5_Witness ==
    /\ DupDone
    /\ Cardinality(Headers(InLines)) = 2
    /\ \E i \in Headers(InLines) : BodyLen(InLines, i) = 1 /\ EndOf(InLines, i) <= Len(InLines)

\* C10 (as claimed): the marker line of a duplicated block is the matched
\* marker line with ios_sim_arm64 replaced by ios_x86_64, and nothing else
\* of it changed.
C10_NewMarkerLine ==
    DupDone =>
        \A i \in Headers(InLines) :
            LET first == EndOf(InLines, i) + Added(InLines, {h \in Headers(InLines) : h < i})
            IN  /\ first <= Len(OutLines)
                /\ OutLines[first]
                       = Replace(InLines[i], <<"ios_", "sim_", "arm64">>, <<"ios_", "x86_64">>)

\* the lines the scenario's file should consist of after the patch
ScenarioPatched(O) ==
    /\ Len(O) = 5
    /\ O[1] = KeySimArm64 \o <<" ", "common_flags", " ", "+", " ", "arm64_specific_flags", ",">>
    /\ Strip(O[2]) = KeySimX86 \o <<" ", "common_flags", ",">>
    /\ Strip(O[3]) = KeyX86 \o <<" ", "common_flags", ",">>
    /\ Strip(O[4]) = KeyDefault \o <<" ", "common_flags", ",">>
    /\ O[5] = <<"}", ")">>

\* C6 (as claimed): patch_libyuv_build and patch_libsrtp_build turn the file
\* that is the ios_sim_arm64 cflags line followed by the closing line into
\* that line, the three new lines and the closing line, nothing else.
C6_SelectScenario ==
    \A k \in {3, 5} :
        (k <= Len(results) /\ PatchFiles[k] \in io.written
            /\ pre[PatchFiles[k]].content = CflagsScenario)
                => ScenarioPatched(Split(fs[PatchFiles[k]].content))

\* whether a[i..] can be found in order, not necessarily adjacent, in b[j..]
RECURSIVE Embeds(_, _, _, _)
Embeds(a, b, i, j) ==
    IF i > Len(a) THEN TRUE
    ELSE LET found == {n \in j..Len(b) : b[n] = a[i]}
         IN  IF found = {} THEN FALSE ELSE Embeds(a, b, i + 1, Least(found) + 1)

\* C9 (as claimed): a patch function that has written its file has only
\* inserted text: what the file held before is still there, in order.
C9_OnlyInserts ==
    /\ \A k \in 1..Len(results) :
           PatchFiles[k] \in io.written
               => Embeds(pre[PatchFiles[k]].content, fs[PatchFiles[k]].content, 1, 1)
    /\ \A j \in DOMAIN genrule_files :
           (genrule_files[j] \in io.written /\ ~(pc = "g_write" /\ step = j))
               => Embeds(pre[genrule_files[j]].content, fs[genrule_files[j]].content, 1, 1)


\* a genrule file that exists, does not hold 'ios_x86_64' and has no line
\* holding the marker literal
NoMarkerFile(f) ==
    /\ f.exists
    /\ ~Contains(f.content, GenrulePatchedLiteral)
    /\ ~Contains(f.content, MarkerLiteral)

\* the positions of an invocation inside the genrule pass's loop
InGenruleLoop == pc \in {"g_check", AfterGenruleChecks, "g_open", "g_write"}

\* C11 (as claimed): while the genrule pass handles a file that exists,
\* holds no 'ios_x86_64' and no marker line, patched_count stays what it was
\* (the file is not counted as patched, "no changes needed"), and when the
\* pass leaves the file its content equals the input; in a dry run as well
\* as in a real run.
C11_NoMarkerNoChange ==
    [][\A j \in DOMAIN genrule_files :
          (InGenruleLoop /\ step = j /\ NoMarkerFile(pre[genrule_files[j]]))
              => /\ patched_count' = patched_count
                 /\ (step' # j => fs'[genrule_files[j]] = pre[genrule_files[j]])]_vars


\* the token rules in listed order: aarch64 -> x86_64, then arm64 -> x86_64
TokenRules(line) ==
    LET first == Replace(line, <<"aarch64">>, <<"x86_64">>)
    IN  Replace(first, <<"arm64">>, <<"x86_64">>)

\* the body of the block of the marker line i
Body(L, i) == SubSeq(L, i + 1, EndOf(L, i) - 1)

\* where line j of L is in the output, the marker lines H having been
\* given duplicated blocks
OutAt(L, H, j) == j + Added(L, {h \in H : EndOf(L, h) <= j})

\* The duplicated body of the block of marker line i in O: it follows the
\* line OutAt(L, H, EndOf(L, i)) - BodyLen(L, i) - 1, where the duplicated
\* block starts, has as many lines as the original body, its k-th line is
\* the original k-th line with the token rules applied, and it ends before
\* the terminator line or ends the file.
DuplicatedBody(L, O, H, i) ==
    LET n == BodyLen(L, i)
        first == EndOf(L, i) + Added(L, {h \in H : h < i})
    IN  /\ first + n <= Len(O)
        /\ \A k \in 1..n : O[first + k] = TokenRules(L[i + k])
        /\ IF EndOf(L, i) <= Len(L)
           THEN first + n + 1 <= Len(O) /\ O[first + n + 1] = L[EndOf(L, i)]
           ELSE first + n = Len(O)

\* the marker lines of H whose block is the scenario's: the body
\* ["a: arm64_flag"] and a terminator line
ScenarioBlocks(L, H) ==
    {i \in H : Body(L, i) = <<FlagLine>> /\ EndOf(L, i) <= Len(L)}

\* C12 (as claimed): every line holding the marker literal has a duplicated
\* body of as many lines as its body, the k-th the original k-th line with
\* the token rules applied in order; and a body ["a: arm64_flag"] yields the
\* original line unchanged, the new line "a: x86_64_flag" immediately after
\* it, and the terminator after that.
C12_DuplicatedBody ==
    DupDone =>
        /\ \A i \in MarkerAt(InLines) :
               DuplicatedBody(InLines, OutLines, MarkerAt(InLines), i)
        /\ \A i \in ScenarioBlocks(InLines, MarkerAt(InLines)) :
               LET at == OutAt(InLines, MarkerAt(InLines), i)
               IN  /\ at + 3 <= Len(OutLines)
                   /\ OutLines[at + 1] = FlagLine
                   /\ OutLines[at + 2] = <<"a: ", "x86_64", "_flag">>
                   /\ OutLines[at + 3] = InLines[EndOf(InLines, i)]

\* C12 (amended): every marker line that does not lie in the body of an
\* earlier marker block has a duplicated body of as many lines as its body,
\* the k-th the original k-th line with the token rules applied in order;
\* and a body ["a: arm64_flag"] yields the original line unchanged, then the
\* new marker line, then the new line "a: x86_64_flag" immediately after
\* the new marker line and immediately before the terminator.
C12_BlockBody ==
    DupDone =>
        /\ \A i \in Headers(InLines) :
               DuplicatedBody(InLines, OutLines, Headers(InLines), i)
        /\ \A i \in ScenarioBlocks(InLines, Headers(InLines)) :
               LET at == OutAt(InLines, Headers(InLines), i)
               IN  /\ at + 4 <= Len(OutLines)
                   /\ OutLines[at + 1] = FlagLine
                   /\ Contains(OutLines[at + 2], NewMarkerLiteral)
                   /\ OutLines[at + 3] = <<"a: ", "x86_64", "_flag">>
                   /\ OutLines[at + 4] = InLines[EndOf(InLines, i)]

\* a file with the scenario's block and a block whose body holds both
\* aarch64 and arm64
C12_Witness ==
    /\ DupDone
    /\ ScenarioBlocks(InLines, Headers(InLines)) # {}
    /\ \E i \in Headers(InLines) : \E k \in 1..BodyLen(InLines, i) :
           InLines[i + k] = Aarch64Line

==============================================================================
